---- MODULE Spec2Model ----
(***************************************************************************)
(* Model of the AI-storyteller backend (ai-story-teller-backend-python):   *)
(* the per-user library retrieval over the vector index, the story         *)
(* creation pipeline, the comprehension (assignment / feedback) service    *)
(* and the reading-assessment (audio) pipeline.                            *)
(*                                                                         *)
(* The four parts only share the stores, so each part has its own          *)
(* specification (SpecLib, SpecStory, SpecAssign, SpecAudio) over the      *)
(* same variables; a part's specification leaves the other parts'          *)
(* variables at their initial value.                                       *)
(***************************************************************************)
EXTENDS Integers, Sequences, FiniteSets, TLC

(***************************************************************************)
(* Bounds of the model and constants of the program.                       *)
(***************************************************************************)
\* largest number of chunks held by the vector index
MaxIndex == 4
\* largest top_k a direct caller of the retriever passes
MaxTopK == 1
\* CreateStoryRequest.child_age has ge=5
MinAge == 5
\* retrieve_from_user_library over-fetches top_k * 3 neighbours
OverFetch == 3

Users == {"u1", "u2"}
\* metadata.get("user_id") of a chunk written without a user_id is None
NoOwner == "None"
\* two of the ages a request may carry (ge=5, le=15)
Ages == {MinAge, MinAge + 1}

\* "Generate exactly 5 questions" (question_generator.py)
ExpectedQuestions == 5
\* largest number of Feedback documents the store holds
MaxFeedbacks == 2
\* largest number of words of a reference text and of an enhanced transcript
MaxWords == 4
\* largest max_pages of a request; the completion may list one page more
MaxPages == 2
\* largest number of tokens of a text given to analyze_punctuation, and of
\* words of a text given to highlight_differences
MaxTokens == 3
\* retrieve_context asks the retriever for top_k=3 chunks
ContextTopK == 3

VARIABLES
    index,        \* the Chroma vector store: the set of chunk metadata records
    libCall,      \* the last retrieve_from_user_library call and what it returned
    stories,      \* the Story collection: story id (position) -> Story document
    assignments,  \* the Assignment collection, in insertion order
    feedbacks,    \* the Feedback collection, in insertion order
    svcCall,      \* the last StoryService call: its arguments and its outcome
    req,          \* the create_story request in flight: its stage and locals
    audio,        \* the Audio document of the AudioAttempt under assessment
    run,          \* the process_audio run in flight: its stage and locals
    diag,         \* the last call of a diagnostic function and its result
    books,        \* the Book collection: book id (position) -> Book document
    upload,       \* the upload_book request in flight: its stage and locals
    calls,        \* concurrent create_assignment calls: caller -> stage, locals
    runs          \* concurrent process_audio runs: runner -> stage, locals

vars == <<index, libCall, stories, assignments, feedbacks, svcCall, req, audio, run, diag, books, upload, calls, runs>>

\* what the actions of one part leave alone
notLib == <<stories, assignments, feedbacks, svcCall, req, audio, run, diag, books, upload, calls, runs>>
notAssign == <<index, libCall, stories, req, audio, run, diag, books, upload, calls, runs>>
notStory == <<libCall, assignments, feedbacks, svcCall, audio, run, diag, books, upload, calls, runs>>
notAudio == <<index, libCall, stories, assignments, feedbacks, svcCall, req, diag, books, upload, calls, runs>>
notDiag == <<index, libCall, stories, assignments, feedbacks, svcCall, req, audio, run, books, upload, calls, runs>>

NoCall == [status |-> "idle"]
NoSvcCall == [op |-> "none"]
NoReq == [stage |-> "idle"]
NoAudio == [exists |-> FALSE]
NoRun == [stage |-> "idle"]
NoDiag == [op |-> "none"]
NoUpload == [stage |-> "idle"]

InitIndex == index = {} /\ libCall = NoCall
InitStories == stories = <<>>
InitAssign == assignments = <<>> /\ feedbacks = <<>> /\ svcCall = NoSvcCall
InitReq == req = NoReq
InitAudio == audio = NoAudio /\ run = NoRun /\ diag = NoDiag
InitBooks == books = <<>> /\ upload = NoUpload
InitConcurrent == calls = <<>> /\ runs = <<>>

(***************************************************************************)
(* Vector index and library retriever (app/services/rag_service.py)        *)
(***************************************************************************)
\* The metadata of a chunk (Document.metadata).  Chunks written by this
\* program carry an owner; the persistent store may also hold chunks with no
\* user_id (add_story_to_index called without metadata) and chunks of a type
\* that is neither book nor story.
ProgramChunks == [user_id : Users, child_age : Ages, type : {"book", "story"}]
ForeignChunks ==
    [user_id : {NoOwner}, child_age : {MinAge}, type : {"story"}]
        \cup [user_id : {"u1"}, child_age : {MinAge}, type : {"educational_content"}]
Chunks == ProgramChunks \cup ForeignChunks

\* the sequences that list n distinct chunks of the set S: the possible answers
\* of a nearest-neighbour search, whose ranking depends on the embedding
Rankings(S, n) ==
    {r \in [1..n -> S] : \A i, j \in 1..n : i # j => r[i] # r[j]}

Min(a, b) == IF a < b THEN a ELSE b
Max(a, b) == IF a > b THEN a ELSE b

\* vector_store.similarity_search(query, k): the k nearest chunks, nearest first
similarity_search(k) == Rankings(index, Min(k, Cardinality(index)))

\* the loop without its ownership test
RECURSIVE FilterLoopNoOwnerCheck(_, _, _, _, _, _, _, _)
FilterLoopNoOwnerCheck(results, i, filtered_results, user_id, child_age, top_k, include_books, include_stories) ==
    IF i > Len(results) THEN filtered_results
    ELSE LET metadata == results[i]
             next == FilterLoopNoOwnerCheck(results, i + 1, filtered_results,
                                            user_id, child_age, top_k,
                                            include_books, include_stories)
         IN  IF metadata.child_age # child_age THEN next
             ELSE IF metadata.type = "book" /\ ~include_books THEN next
             ELSE IF metadata.type = "story" /\ ~include_stories THEN next
             ELSE LET appended == Append(filtered_results, metadata)
                  IN  IF Len(appended) >= top_k THEN appended
                      ELSE FilterLoopNoOwnerCheck(results, i + 1, appended,
                                                  user_id, child_age, top_k,
                                                  include_books, include_stories)

\* the filter loop of retrieve_from_user_library, from position i of results
RECURSIVE FilterLoop(_, _, _, _, _, _, _, _)
FilterLoop(results, i, filtered_results, user_id, child_age, top_k, include_books, include_stories) ==
    IF i > Len(results) THEN filtered_results
    ELSE LET metadata == results[i]
             next == FilterLoop(results, i + 1, filtered_results, user_id,
                                child_age, top_k, include_books, include_stories)
         IN  IF metadata.user_id # user_id THEN next
             ELSE IF metadata.child_age # child_age THEN next
             ELSE IF metadata.type = "book" /\ ~include_books THEN next
             ELSE IF metadata.type = "story" /\ ~include_stories THEN next
             ELSE LET appended == Append(filtered_results, metadata)
                  IN  IF Len(appended) >= top_k THEN appended
                      ELSE FilterLoop(results, i + 1, appended, user_id,
                                      child_age, top_k, include_books,
                                      include_stories)

\* retrieve_from_user_library on the neighbours the index returned
retrieve_from_user_library(results, user_id, child_age, top_k, include_books, include_stories) ==
    FilterLoop(results, 1, <<>>, user_id, child_age, top_k,
               include_books, include_stories)

\* vector_store.add_documents: a chunk is written to the index
AddDocuments ==
    /\ Cardinality(index) < MaxIndex
    /\ \E c \in Chunks \ index : index' = index \cup {c}
    /\ libCall' = NoCall
    /\ UNCHANGED notLib

\* a caller runs retrieve_from_user_library and the search answers
RetrieveFromUserLibrary ==
    /\ libCall.status = "idle"
    /\ \E user_id \in Users, child_age \in Ages, top_k \in 1..MaxTopK,
       include_books \in BOOLEAN, include_stories \in BOOLEAN :
      \E results \in similarity_search(top_k * OverFetch) :
        libCall' = [status |-> "returned", queried |-> TRUE,
                    user_id |-> user_id, child_age |-> child_age,
                    top_k |-> top_k, include_books |-> include_books,
                    include_stories |-> include_stories,
                    results |-> results,
                    docs |-> retrieve_from_user_library(
                                results, user_id, child_age, top_k,
                                include_books, include_stories)]
        /\ UNCHANGED <<index, notLib>>

\* the embedding call or the index query raises: the except branch returns []
RetrieveFromUserLibraryFails ==
    /\ libCall.status = "idle"
    /\ \E user_id \in Users, child_age \in Ages, top_k \in 1..MaxTopK,
       include_books \in BOOLEAN, include_stories \in BOOLEAN :
        libCall' = [status |-> "failed", queried |-> TRUE,
                    user_id |-> user_id, child_age |-> child_age,
                    top_k |-> top_k, include_books |-> include_books,
                    include_stories |-> include_stories,
                    results |-> <<>>, docs |-> <<>>]
        /\ UNCHANGED <<index, notLib>>

InitLib == InitIndex /\ InitStories /\ InitAssign /\ InitReq /\ InitAudio
    /\ InitBooks /\ InitConcurrent

NextLib == AddDocuments \/ RetrieveFromUserLibrary \/ RetrieveFromUserLibraryFails

SpecLib == InitLib /\ [][NextLib]_vars

\* C1: every chunk that retrieve_from_user_library returns carries the
\* owner id of the query, for each of the four combinations of
\* include_books and include_stories and for every content of the index.
C1_OwnerIsolation ==
    libCall.status # "idle" =>
        \A i \in 1..Len(libCall.docs) : libCall.docs[i].user_id = libCall.user_id

\* a retrieval over an index that also holds another owner's chunk of the
\* queried age returned a chunk
C1_Witness ==
    /\ libCall.status = "returned"
    /\ Len(libCall.docs) > 0
    /\ \E i \in 1..Len(libCall.results) :
          /\ libCall.results[i].user_id # libCall.user_id
          /\ libCall.results[i].child_age = libCall.child_age

(***************************************************************************)
(* Comprehension service (app/services/story_service.py): get_story,       *)
(* create_assignment and generate_feedback_for_assignment.  Each call of   *)
(* the service runs to completion before the next one starts.              *)
(***************************************************************************)
\* a stored Story document of the given owner
StoryDoc(owner) ==
    [created_by |-> owner,
     story_content |-> <<[page_text |-> "text", page_image |-> "null"]>>,
     max_pages |-> 1]

\* the Story collections the comprehension service is run against
AssignStoryStores == {<<>>, <<StoryDoc("u1")>>, <<StoryDoc("u2")>>}

\* the story ids a caller may pass: the stored ones and one that is not stored
StoryIds == {1, 2}

\* what generate_questions can come back with: it raises (transport failure
\* or text that is not JSON), or it returns JSON whose "questions" entries do
\* not validate as Question, or JSON with no "questions" key, with fewer
\* than five questions, or with five
QuestionResponses == {"raises", "malformed", "no_questions", "fewer", "five"}

\* len(questions_data.get("questions", [])) for a response that validates
QuestionCount(qresp) ==
    CASE qresp = "no_questions" -> 0
      [] qresp = "fewer" -> ExpectedQuestions - 1
      [] OTHER -> ExpectedQuestions

\* what generate_feedback can come back with: it raises, or it returns JSON
\* whose "results" do not validate as FeedbackItem, or results that do
FeedbackResponses == {"raises", "malformed", "results"}

\* Story.get(story_id): the document, or None (found = FALSE)
StoryGet(story_id) ==
    IF story_id \in DOMAIN stories
    THEN [found |-> TRUE, doc |-> stories[story_id]]
    ELSE [found |-> FALSE]

\* Assignment.find_one(sid == story_id, uid == user_id): the id (position) of
\* the first matching document, 0 for None
AssignmentFindOne(story_id, user_id) ==
    LET hits == {i \in DOMAIN assignments :
                    assignments[i].sid = story_id /\ assignments[i].uid = user_id}
    IN  IF hits = {} THEN 0 ELSE CHOOSE i \in hits : \A j \in hits : i <= j

\* get_story without the comparison of created_by with user_id
get_story_NoOwnerCheck(story_id, user_id) ==
    LET story == StoryGet(story_id)
    IN  IF ~story.found THEN [outcome |-> "NotFound", story |-> 0]
        ELSE [outcome |-> "ok", story |-> story_id]

\* StoryService.get_story: the outcome and the id of the story returned
get_story(story_id, user_id) ==
    LET story == StoryGet(story_id)
    IN  IF ~story.found THEN [outcome |-> "NotFound", story |-> 0]
        ELSE IF story.doc.created_by # user_id
             THEN [outcome |-> "Forbidden", story |-> 0]
             ELSE [outcome |-> "ok", story |-> story_id]

\* create_assignment without the lookup of an existing Assignment
create_assignment_NoLookup(story_id, user_id, qresp) ==
    LET story == StoryGet(story_id)
    IN  IF ~story.found
        THEN [outcome |-> "NotFound", id |-> 0, existed |-> FALSE,
              question_calls |-> 0, assignments |-> assignments]
        ELSE IF qresp \in {"raises", "malformed"}
        THEN [outcome |-> "Error", id |-> 0, existed |-> FALSE,
              question_calls |-> 1, assignments |-> assignments]
        ELSE [outcome |-> "ok", id |-> Len(assignments) + 1, existed |-> FALSE,
              question_calls |-> 1,
              assignments |-> Append(assignments,
                  [sid |-> story_id, uid |-> user_id,
                   questions |-> QuestionCount(qresp)])]

\* StoryService.create_assignment: the outcome, the id of the Assignment
\* returned, whether it existed before the call, the number of calls of the
\* question-generation capability, and the Assignment collection afterwards
create_assignment(story_id, user_id, qresp) ==
    LET existing == AssignmentFindOne(story_id, user_id)
        story == StoryGet(story_id)
    IN  IF existing # 0
        THEN [outcome |-> "ok", id |-> existing, existed |-> TRUE,
              question_calls |-> 0, assignments |-> assignments]
        ELSE IF ~story.found
        THEN [outcome |-> "NotFound", id |-> 0, existed |-> FALSE,
              question_calls |-> 0, assignments |-> assignments]
        ELSE IF qresp \in {"raises", "malformed"}
        THEN [outcome |-> "Error", id |-> 0, existed |-> FALSE,
              question_calls |-> 1, assignments |-> assignments]
        ELSE [outcome |-> "ok", id |-> Len(assignments) + 1, existed |-> FALSE,
              question_calls |-> 1,
              assignments |-> Append(assignments,
                  [sid |-> story_id, uid |-> user_id,
                   questions |-> QuestionCount(qresp)])]

\* feedback generation without the test for the Assignment
generate_feedback_for_assignment_NoAssignmentTest(story_id, user_id, fresp) ==
    LET story == StoryGet(story_id)
    IN  IF ~story.found
        THEN [outcome |-> "NotFound", id |-> 0, grade_calls |-> 0,
              feedbacks |-> feedbacks]
        ELSE IF fresp \in {"raises", "malformed"}
        THEN [outcome |-> "Error", id |-> 0, grade_calls |-> 1,
              feedbacks |-> feedbacks]
        ELSE [outcome |-> "ok", id |-> Len(feedbacks) + 1, grade_calls |-> 1,
              feedbacks |-> Append(feedbacks,
                  [sid |-> story_id, uid |-> user_id])]

\* feedback generation that replaces the pair's Feedback when it has one
generate_feedback_for_assignment_Upsert(story_id, user_id, fresp) ==
    LET assignment == AssignmentFindOne(story_id, user_id)
        story == StoryGet(story_id)
        mine == {f \in DOMAIN feedbacks : feedbacks[f].sid = story_id
                                            /\ feedbacks[f].uid = user_id}
    IN  IF assignment = 0 \/ ~story.found
        THEN [outcome |-> "NotFound", id |-> 0, grade_calls |-> 0,
              feedbacks |-> feedbacks]
        ELSE IF fresp \in {"raises", "malformed"}
        THEN [outcome |-> "Error", id |-> 0, grade_calls |-> 1,
              feedbacks |-> feedbacks]
        ELSE IF mine # {}
        THEN [outcome |-> "ok", id |-> CHOOSE f \in mine : TRUE,
              grade_calls |-> 1, feedbacks |-> feedbacks]
        ELSE [outcome |-> "ok", id |-> Len(feedbacks) + 1, grade_calls |-> 1,
              feedbacks |-> Append(feedbacks,
                  [sid |-> story_id, uid |-> user_id])]

\* StoryService.generate_feedback_for_assignment: the outcome, the id of the
\* Feedback inserted, the number of calls of the grading capability, and the
\* Feedback collection afterwards
generate_feedback_for_assignment(story_id, user_id, fresp) ==
    LET assignment == AssignmentFindOne(story_id, user_id)
        story == StoryGet(story_id)
    IN  IF assignment = 0 \/ ~story.found
        THEN [outcome |-> "NotFound", id |-> 0, grade_calls |-> 0,
              feedbacks |-> feedbacks]
        ELSE IF fresp \in {"raises", "malformed"}
        THEN [outcome |-> "Error", id |-> 0, grade_calls |-> 1,
              feedbacks |-> feedbacks]
        ELSE [outcome |-> "ok", id |-> Len(feedbacks) + 1, grade_calls |-> 1,
              feedbacks |-> Append(feedbacks,
                  [sid |-> story_id, uid |-> user_id])]

\* GET /getStory/{sid}
GetStory ==
    \E story_id \in StoryIds, user_id \in Users :
        LET r == get_story(story_id, user_id)
        IN  /\ svcCall' = [op |-> "get_story", story_id |-> story_id,
                           user_id |-> user_id, outcome |-> r.outcome,
                           id |-> r.story, existed |-> FALSE,
                           question_calls |-> 0, grade_calls |-> 0,
                           wrote |-> FALSE]
            /\ UNCHANGED <<assignments, feedbacks, notAssign>>

\* GET /getQuestions/{sid}
CreateAssignment ==
    \E story_id \in StoryIds, user_id \in Users, qresp \in QuestionResponses :
        LET r == create_assignment(story_id, user_id, qresp)
        IN  /\ assignments' = r.assignments
            /\ svcCall' = [op |-> "create_assignment", story_id |-> story_id,
                           user_id |-> user_id, outcome |-> r.outcome,
                           id |-> r.id, existed |-> r.existed,
                           question_calls |-> r.question_calls,
                           grade_calls |-> 0,
                           wrote |-> r.assignments # assignments]
            /\ UNCHANGED <<feedbacks, notAssign>>

\* POST /feedback/{sid}
GenerateFeedbackForAssignment ==
    \E story_id \in StoryIds, user_id \in Users, fresp \in FeedbackResponses :
        LET r == generate_feedback_for_assignment(story_id, user_id, fresp)
        IN  /\ Len(r.feedbacks) <= MaxFeedbacks
            /\ feedbacks' = r.feedbacks
            /\ svcCall' = [op |-> "generate_feedback_for_assignment",
                           story_id |-> story_id, user_id |-> user_id,
                           outcome |-> r.outcome, id |-> r.id,
                           existed |-> FALSE, question_calls |-> 0,
                           grade_calls |-> r.grade_calls,
                           wrote |-> r.feedbacks # feedbacks]
            /\ UNCHANGED <<assignments, notAssign>>

InitAssignSvc ==
    /\ stories \in AssignStoryStores
    /\ InitIndex /\ InitAssign /\ InitReq /\ InitAudio
    /\ InitBooks /\ InitConcurrent

NextAssign == GetStory \/ CreateAssignment \/ GenerateFeedbackForAssignment

SpecAssign == InitAssignSvc /\ [][NextAssign]_vars

\* the last call was made by a user who does not own the (existing) story
NonOwnerCall ==
    /\ svcCall.op # "none"
    /\ svcCall.story_id \in DOMAIN stories
    /\ stories[svcCall.story_id].created_by # svcCall.user_id

\* C3: two create_or_get_assignment calls made one after the other with the
\* same (story_id, owner_id) that both return give the same Assignment id;
\* the second call does not invoke question generation, and when the first
\* call is the one that creates the Assignment the capability is invoked
\* exactly once over the two calls.
C3_CreateOrGetIdempotent ==
    [][(/\ svcCall.op = "create_assignment" /\ svcCall.outcome = "ok"
        /\ svcCall'.op = "create_assignment" /\ svcCall'.outcome = "ok"
        /\ svcCall'.story_id = svcCall.story_id
        /\ svcCall'.user_id = svcCall.user_id)
       => /\ svcCall'.id = svcCall.id
          /\ svcCall'.question_calls = 0
          /\ assignments' = assignments
          /\ (~svcCall.existed =>
                 svcCall.question_calls + svcCall'.question_calls = 1)]_vars

\* a create_assignment call found the Assignment an earlier call had created
C3_Witness ==
    /\ svcCall.op = "create_assignment" /\ svcCall.outcome = "ok"
    /\ svcCall.existed /\ svcCall.question_calls = 0
    /\ assignments[svcCall.id].sid = svcCall.story_id
    /\ assignments[svcCall.id].uid = svcCall.user_id

\* C4: get_story fails with NotFound on a missing story, fails with
\* Forbidden (returning no story) on a story of another owner, and returns
\* the story only when its owner is the caller.
C4_GetStoryOwnership ==
    svcCall.op = "get_story" =>
        /\ svcCall.story_id \notin DOMAIN stories => svcCall.outcome = "NotFound"
        /\ NonOwnerCall => svcCall.outcome = "Forbidden" /\ svcCall.id = 0
        /\ svcCall.outcome = "ok" =>
              /\ svcCall.story_id \in DOMAIN stories
              /\ stories[svcCall.story_id].created_by = svcCall.user_id
              /\ svcCall.id = svcCall.story_id

\* get_story was refused to a user who does not own the story
C4_Witness ==
    svcCall.op = "get_story" /\ NonOwnerCall /\ svcCall.outcome = "Forbidden"

\* C5: a create_or_get_assignment or submit_answers call by a user who does
\* not own the story fails with an authorization error, with no call of the
\* question-generation or grading capability and no Assignment or Feedback
\* written.
C5_NonOwnerShortCircuits ==
    (/\ svcCall.op \in {"create_assignment", "generate_feedback_for_assignment"}
     /\ NonOwnerCall)
    => /\ svcCall.outcome = "Forbidden"
       /\ svcCall.question_calls = 0 /\ svcCall.grade_calls = 0
       /\ ~svcCall.wrote

(***************************************************************************)
(* Reading assessment (app/services/audio_service.py).  A text is a        *)
(* sequence of tokens, each a word or a run of whitespace.                 *)
(***************************************************************************)
Vocabulary == {"fox", "dog"}
SP == " "

WordSeqs(n) == UNION {[1..k -> Vocabulary] : k \in 0..n}

\* " ".join(words)
RECURSIVE Join(_)
Join(words) ==
    IF Len(words) = 0 THEN <<>>
    ELSE IF Len(words) = 1 THEN <<words[1]>>
    ELSE <<words[1], SP>> \o Join(Tail(words))

\* the whitespace-separated words of a text: str.split(), and the word lists
\* jiwer reduces its two arguments to
Split(text) == SelectSeq(text, LAMBDA t : t # SP)

\* the whole_story of an Audio document: the joined page texts of a story,
\* among them the empty string (no page) and a whitespace-only string (empty
\* pages joined by " ")
ReferenceTexts == {Join(ws) : ws \in WordSeqs(MaxWords)} \cup {<<SP>>}
\* what the transcription capability returns for a short recording
RawTranscripts == {Join(ws) : ws \in WordSeqs(1)}
\* transcript.text of a transcript the transcriber hands back with status
\* error instead of raising: None, which is no text (a token no text holds
\* keeps it apart from every text)
NoText == <<"None">>
\* what the enhancement completion returns
EnhancedTranscripts == {Join(ws) : ws \in WordSeqs(MaxWords)}

\* one row of the edit-distance table: prev is the row of the reference prefix
\* without the word w, row the part of the new row already computed
RECURSIVE LevRow(_, _, _, _)
LevRow(prev, w, hyp, row) ==
    LET c == Len(row)
    IN  IF c > Len(hyp) THEN row
        ELSE LET substitution == prev[c] + (IF hyp[c] = w THEN 0 ELSE 1)
                 deletion == prev[c + 1] + 1
                 insertion == row[c] + 1
             IN  LevRow(prev, w, hyp,
                        Append(row, Min(substitution, Min(deletion, insertion))))

RECURSIVE LevRows(_, _, _, _)
LevRows(ref, hyp, i, prev) ==
    IF i > Len(ref) THEN prev
    ELSE LevRows(ref, hyp, i + 1, LevRow(prev, ref[i], hyp, <<prev[1] + 1>>))

\* the number of word substitutions, deletions and insertions jiwer counts
WordErrors(ref, hyp) ==
    LET last == LevRows(ref, hyp, 1, [c \in 1..(Len(hyp) + 1) |-> c - 1])
    IN  last[Len(hyp) + 1]

\* jiwer.wer(reference, hypothesis): the error count over the number of
\* reference words, as the fraction num/den; an empty reference raises, and
\* so does a hypothesis that is not a string
wer(reference, hypothesis) ==
    LET ref == Split(reference)
        hyp == Split(hypothesis)
    IN  IF Len(ref) = 0 \/ hypothesis = NoText THEN [raises |-> TRUE]
        ELSE [raises |-> FALSE, num |-> WordErrors(ref, hyp), den |-> Len(ref)]

\* the score without the clamp at 0
ScoreUnclamped(error_rate) ==
    [num |-> 100 * error_rate.den - 100 * error_rate.num, den |-> error_rate.den]

\* score = max(0, 100 - (100 * error_rate)), as the fraction num/den
Score(error_rate) ==
    [num |-> Max(0, 100 * error_rate.den - 100 * error_rate.num),
     den |-> error_rate.den]

\* scoring the raw transcript instead of the enhanced one
ScoredTranscriptRaw(transcript, enhanced_transcript) == transcript

\* the hypothesis process_audio passes to wer
ScoredTranscript(transcript, enhanced_transcript) == enhanced_transcript

NoValue == [null |-> TRUE]
Value(v) == [null |-> FALSE, v |-> v]

\* upload_audio_to_s3: the Audio document of a story's text is inserted
UploadAudio ==
    /\ ~audio.exists
    /\ \E whole_story \in ReferenceTexts :
          audio' = [exists |-> TRUE, whole_story |-> whole_story,
                    transcript |-> NoValue, score |-> NoValue]
    /\ UNCHANGED <<run, notAudio>>

\* process_audio is called: Audio.get, and the test of whole_story
ProcessAudio ==
    /\ run.stage \in {"idle", "done", "failed"}
    /\ IF ~audio.exists
       THEN run' = [stage |-> "failed", error |-> "NotFound", at |-> "load",
                    transcript |-> NoText]
       ELSE IF audio.whole_story = <<>>
            THEN run' = [stage |-> "failed", error |-> "Error", at |-> "load",
                         transcript |-> NoText]
            ELSE run' = [stage |-> "transcribe"]
    /\ UNCHANGED <<audio, notAudio>>

\* a run that keeps the transcript to itself until the score is known
save_transcript_deferred(doc, transcript) == doc

\* audio.transcript = transcript; await audio.save()
save_transcript(doc, transcript) == [doc EXCEPT !.transcript = Value(transcript)]

\* transcribe_audio returns; the transcript is stored and the document saved
Transcribe ==
    /\ run.stage = "transcribe"
    /\ \E transcript \in RawTranscripts :
          /\ audio' = save_transcript(audio, transcript)
          /\ run' = [stage |-> "enhance", transcript |-> transcript]
    /\ UNCHANGED notAudio

\* the transcription failed and the transcriber reports it in the status of
\* the transcript it returns: transcribe_audio returns transcript.text
\* without reading the status, process_audio stores it and goes on
TranscribeReturnsNoText ==
    /\ run.stage = "transcribe"
    /\ audio' = [audio EXCEPT !.transcript = NoValue]
    /\ run' = [stage |-> "enhance", transcript |-> NoText]
    /\ UNCHANGED notAudio

\* transcribe_audio raises
TranscribeFails ==
    /\ run.stage = "transcribe"
    /\ run' = [stage |-> "failed", error |-> "Error", at |-> "transcribe",
               transcript |-> NoText]
    /\ UNCHANGED <<audio, notAudio>>

\* enhance_transcript returns the completion's text
EnhanceTranscript ==
    /\ run.stage = "enhance"
    /\ \E enhanced_transcript \in EnhancedTranscripts :
          run' = [stage |-> "score", transcript |-> run.transcript,
                  enhanced_transcript |-> enhanced_transcript,
                  enhanced |-> TRUE]
    /\ UNCHANGED <<audio, notAudio>>

\* an except clause that returns an empty text
enhance_transcript_except_empty(transcript) == <<>>

\* the except clause of enhance_transcript: return transcript
enhance_transcript_except(transcript) == transcript

\* the completion raises: enhance_transcript returns the transcript it got
EnhanceTranscriptFails ==
    /\ run.stage = "enhance"
    /\ run' = [stage |-> "score", transcript |-> run.transcript,
               enhanced_transcript |->
                   enhance_transcript_except(run.transcript),
               enhanced |-> FALSE]
    /\ UNCHANGED <<audio, notAudio>>

\* the score is computed, stored and returned with the transcripts
ComputeScore ==
    /\ run.stage = "score"
    /\ LET error_rate == wer(audio.whole_story,
                             ScoredTranscript(run.transcript,
                                              run.enhanced_transcript))
       IN  IF error_rate.raises
           THEN /\ run' = [stage |-> "failed", error |-> "Error",
                           at |-> "score", transcript |-> run.transcript]
                /\ UNCHANGED audio
           ELSE /\ audio' = [audio EXCEPT !.score = Value(Score(error_rate))]
                /\ run' = [stage |-> "done", transcript |-> run.transcript,
                           enhanced_transcript |-> run.enhanced_transcript,
                           enhanced |-> run.enhanced,
                           score |-> Score(error_rate)]
    /\ UNCHANGED notAudio

\* the save of the score raises: the store does not take the write
ScoreWriteFails ==
    /\ run.stage = "score"
    /\ ~wer(audio.whole_story,
            ScoredTranscript(run.transcript, run.enhanced_transcript)).raises
    /\ run' = [stage |-> "failed", error |-> "Error", at |-> "save_score",
               transcript |-> run.transcript]
    /\ UNCHANGED <<audio, notAudio>>

InitAudioSvc == InitIndex /\ InitStories /\ InitAssign /\ InitReq /\ InitAudio
    /\ InitBooks /\ InitConcurrent

NextAudio ==
    \/ UploadAudio \/ ProcessAudio \/ Transcribe \/ TranscribeFails
    \/ TranscribeReturnsNoText \/ ScoreWriteFails
    \/ EnhanceTranscript \/ EnhanceTranscriptFails \/ ComputeScore

SpecAudio == InitAudioSvc /\ [][NextAudio]_vars

\* the least number of word substitutions, insertions and deletions that
\* turn the word sequence a into b
RECURSIVE EditDistance(_, _)
EditDistance(a, b) ==
    IF Len(a) = 0 THEN Len(b)
    ELSE IF Len(b) = 0 THEN Len(a)
    ELSE Min(EditDistance(Tail(a), Tail(b)) + (IF Head(a) = Head(b) THEN 0 ELSE 1),
             Min(EditDistance(Tail(a), b) + 1, EditDistance(a, Tail(b)) + 1))

\* process_audio has returned a score
ScoreReturned == run.stage = "done"

\* C6: the score process_audio stores and returns lies in 0..100, whatever
\* the reference text and the enhanced transcript.
C6_ScoreInRange ==
    /\ ScoreReturned =>
          /\ 0 <= run.score.num /\ run.score.num <= 100 * run.score.den
          /\ audio.score = Value(run.score)
    /\ (audio.exists /\ ~audio.score.null) =>
          /\ audio.score.v.den > 0
          /\ 0 <= audio.score.v.num
          /\ audio.score.v.num <= 100 * audio.score.v.den

\* a score was returned for an enhanced transcript with more errors than the
\* reference has words
C6_Witness ==
    /\ ScoreReturned
    /\ EditDistance(Split(audio.whole_story), Split(run.enhanced_transcript))
          > Len(Split(audio.whole_story))
    /\ run.score.num = 0

\* C7: the score is max(0, 100 * (1 - d/n)), d the word edit distance
\* between the reference text and the enhanced transcript and n the number
\* of reference words: 100 when the enhanced transcript equals the
\* reference, 75 for one substituted word out of four.
C7_ScoreFormula ==
    ScoreReturned =>
        LET ref == Split(audio.whole_story)
            enh == Split(run.enhanced_transcript)
            n == Len(ref)
            d == EditDistance(ref, enh)
        IN  /\ n > 0 /\ run.score.den = n
            /\ run.score.num = Max(0, 100 * (n - d))
            /\ run.enhanced_transcript = audio.whole_story =>
                  run.score.num = 100 * run.score.den
            /\ (/\ n = 4 /\ Len(enh) = 4
                /\ Cardinality({i \in 1..4 : ref[i] # enh[i]}) = 1)
               => run.score.num * 100 = 75 * (100 * run.score.den)

\* one word of a four-word reference was substituted in the enhanced
\* transcript, which differs from the raw transcript, and the score is 75
C7_Witness ==
    /\ ScoreReturned
    /\ Len(Split(audio.whole_story)) = 4
    /\ Len(Split(run.enhanced_transcript)) = 4
    /\ Cardinality({i \in 1..4 :
          Split(audio.whole_story)[i] # Split(run.enhanced_transcript)[i]}) = 1
    /\ run.enhanced_transcript # run.transcript
    /\ run.score = [num |-> 300, den |-> 4]

(***************************************************************************)
(* Story creation (app/services/story_service.py create_story and          *)
(* app/agents/story_graph.py).  SpecStory follows one create_story request *)
(* from its start to its end; req holds its stage and its locals.  The     *)
(* stages are separated by the awaits of the code: the retriever, the      *)
(* completion, the gathered image tasks, the Story insert and the index    *)
(* write.                                                                  *)
(***************************************************************************)
\* An entry of the storyContent list the completion returned:
\*   "text"    an object whose pageText is a non-empty string
\*   "empty"   an object with no pageText, or with pageText ""
\*   "nonstr"  an object whose pageText is not a string (null, a number)
\*   "nondict" an entry that is not an object (a string, a list)
PageKinds == {"text", "empty", "nonstr", "nondict"}
PageLists == UNION {[1..n -> PageKinds] : n \in 0..(MaxPages + 1)}

\* The text of the completion: a payload, bare or wrapped.
\*   payload: text that is not JSON; a JSON list, or a JSON string without
\*   the word storyContent ("not_object"); a JSON number, boolean or null
\*   ("json_scalar"); an object without a list-valued storyContent; an
\*   object with a storyContent list
\*   wrap: none; a ```json fence; a bare ``` fence; a fence with another
\*   language tag; prose around the payload without fences
Payloads ==
    [kind : {"not_json", "not_object", "json_scalar", "no_story_content"}]
        \cup [kind : {"story"}, storyContent : PageLists]
Wraps == {"none", "json_fence", "bare_fence", "tagged_fence", "prose"}
Responses == [wrap : Wraps, payload : Payloads]

\* the cleaning of markdown code blocks: what json.loads is given.  The
\* text between the fences is the payload, except that a language tag other
\* than json stays in front of it; unfenced prose stays around it.
StripFences(response) ==
    IF response.wrap \in {"none", "json_fence", "bare_fence"}
    THEN response.payload
    ELSE [kind |-> "not_json"]

\* parsing that falls back to a one-page story holding the raw text
ParseStoryJsonWithFallback(response) ==
    LET content == StripFences(response)
    IN  IF content.kind = "story"
        THEN [raises |-> FALSE, storyContent |-> content.storyContent]
        ELSE [raises |-> FALSE, storyContent |-> <<"text">>]

\* json.loads and the validation of the structure (generate_story_content):
\* JSONDecodeError and ValueError become the parse error; the membership
\* test on a scalar raises TypeError, which passes through as it is
ParseStoryJson(response) ==
    LET content == StripFences(response)
    IN  IF content.kind = "story"
        THEN [raises |-> FALSE, storyContent |-> content.storyContent]
        ELSE [raises |-> TRUE,
              error |-> IF content.kind = "json_scalar" THEN "type"
                        ELSE "parse"]

\* a selection that keeps only every third page
SelectedEveryThird(i) == i % 3 = 0

\* the pages (0-based position i) create_story asks an image for
Selected(i) == i % 3 = 0 \/ i % 3 = 2

\* the loop that creates the image tasks: page_data.get raises on an entry
\* that is not an object; tasks are the 0-based positions selected
ImageTasks(page_texts, include_image) ==
    IF ~include_image THEN [raises |-> FALSE, tasks |-> {}]
    ELSE IF \E p \in DOMAIN page_texts : page_texts[p] = "nondict"
    THEN [raises |-> TRUE]
    ELSE [raises |-> FALSE,
          tasks |-> {i \in 0..(Len(page_texts) - 1) : Selected(i)}]

\* a page image that is set for every page an image was asked for
PageImageOfTask(i, image_tasks, image_results, uploaded) ==
    IF i \in image_tasks
    THEN (IF i \in uploaded THEN "s3_url" ELSE "openai_url")
    ELSE "null"

\* the image of page i: null unless the page has an image result; then the
\* S3 URL, or the capability's URL when the download or the upload failed
PageImage(i, image_tasks, image_results, uploaded) ==
    IF i \in image_results
    THEN (IF i \in uploaded THEN "s3_url" ELSE "openai_url")
    ELSE "null"

\* page_data.get("pageText", "")
PageText(kind) == IF kind = "empty" THEN "" ELSE kind

\* the loop that builds story_contents: page_data.get raises on an entry
\* that is not an object, PageContent on a pageText that is not a string
StoryContents(page_texts, image_tasks, image_results, uploaded) ==
    IF \E p \in DOMAIN page_texts : page_texts[p] \in {"nondict", "nonstr"}
    THEN [raises |-> TRUE]
    ELSE [raises |-> FALSE,
          story_contents |->
              [p \in DOMAIN page_texts |->
                  [page_text |-> PageText(page_texts[p]),
                   page_image |-> PageImage(p - 1, image_tasks, image_results,
                                            uploaded)]]]

NoResponse == [wrap |-> "none", payload |-> [kind |-> "none"]]

\* except Exception as e: raise Exception(f"Failed to create story: {e}")
CreateStoryError(error) ==
    [type |-> "Exception", message |-> <<"Failed to create story", error>>]

\* the handler registered for Exception: the body does not depend on exc
general_exception_handler(exc) ==
    [status_code |-> 500, error |-> "Internal server error"]

\* create_story's except clause: the request ends with an error; what the
\* failed stage held stays for inspection
Failed(r, error, at) ==
    [stage |-> "failed", error |-> error, at |-> at,
     reply |-> general_exception_handler(CreateStoryError(error)),
     response |-> IF at = "parse" THEN r.response ELSE NoResponse,
     include_image |-> r.include_image, max_pages |-> r.max_pages,
     image_calls |-> IF at = "build" THEN r.image_calls ELSE {},
     page_texts |-> IF at = "build" THEN r.page_texts ELSE <<>>]

\* POST /api/story/create: create_story is entered, with max_pages,
\* include_image and child_age among the given values
CreateStoryOf(PageBounds, ImageFlags, AgeSet) ==
    /\ req.stage = "idle"
    /\ \E user_id \in Users, max_pages \in PageBounds, child_age \in AgeSet,
          include_image \in ImageFlags,
          use_books_context \in BOOLEAN, use_history_context \in BOOLEAN :
          req' = [stage |-> "retrieve_context", user_id |-> user_id,
                  max_pages |-> max_pages, child_age |-> child_age,
                  include_image |-> include_image,
                  use_books_context |-> use_books_context,
                  use_history_context |-> use_history_context]
    /\ UNCHANGED <<index, stories, notStory>>

\* POST /api/story/create
CreateStory == CreateStoryOf(1..MaxPages, BOOLEAN, Ages)

\* the locals of the request that the later stages read
Locals(r) ==
    [user_id |-> r.user_id, max_pages |-> r.max_pages,
     child_age |-> r.child_age, include_image |-> r.include_image]

\* retrieve_context: no retrieval when both flags are off, else the library
\* retrieval; its result only goes into the prompt
RetrieveContext ==
    /\ req.stage = "retrieve_context"
    /\ IF ~(req.use_books_context \/ req.use_history_context)
       THEN req' = [stage |-> "generate", retrieved |-> FALSE,
                    retrieval_error |-> FALSE,
                    library_docs |-> <<>>] @@ Locals(req)
       ELSE \E results \in similarity_search(ContextTopK * OverFetch) :
              req' = [stage |-> "generate", retrieved |-> TRUE,
                      retrieval_error |-> FALSE,
                      library_docs |-> retrieve_from_user_library(
                          results, req.user_id, req.child_age, ContextTopK,
                          req.use_books_context, req.use_history_context)]
                     @@ Locals(req)
    /\ UNCHANGED <<index, stories, notStory>>

\* a retriever whose error reaches the caller
retrieval_error_propagates(raised) ==
    [raises |-> raised, library_docs |-> <<>>]

\* what the retriever's error handling leaves of an error of the embedding
\* call or of the index query: retrieve_from_user_library logs it and
\* returns [], and retrieve_context has an except clause of its own
retrieval_error_handling(raised) ==
    [raises |-> FALSE, library_docs |-> <<>>]

\* the embedding call or the index query raises during the retrieval
RetrieveContextFails ==
    /\ req.stage = "retrieve_context"
    /\ req.use_books_context \/ req.use_history_context
    /\ LET c == retrieval_error_handling(TRUE)
       IN  IF c.raises
           THEN req' = Failed(req, "retrieval", "retrieve_context")
           ELSE req' = [stage |-> "generate", retrieved |-> TRUE,
                        retrieval_error |-> TRUE,
                        library_docs |-> c.library_docs] @@ Locals(req)
    /\ UNCHANGED <<index, stories, notStory>>

\* llm.ainvoke returns the completion's text, one of the given texts
GenerateStoryContentOf(Texts) ==
    /\ req.stage = "generate"
    /\ \E response \in Texts :
          req' = [stage |-> "parse", response |-> response] @@ Locals(req)
    /\ UNCHANGED <<index, stories, notStory>>

\* llm.ainvoke returns the completion's text
GenerateStoryContent == GenerateStoryContentOf(Responses)

\* llm.ainvoke raises: the error reaches create_story's except clause
GenerateStoryContentFails ==
    /\ req.stage = "generate"
    /\ req' = Failed(req, "api", "generate")
    /\ UNCHANGED <<index, stories, notStory>>

\* the response is parsed and validated; create_story then creates the image
\* tasks and, when there are none, goes on to build the pages
ParseStoryContent ==
    /\ req.stage = "parse"
    /\ LET story_json == ParseStoryJson(req.response)
       IN  IF story_json.raises
           THEN req' = Failed(req, story_json.error, "parse")
           ELSE LET t == ImageTasks(story_json.storyContent, req.include_image)
                IN  IF t.raises THEN req' = Failed(req, "page", "select")
                    ELSE req' = [stage |-> IF t.tasks = {} THEN "build"
                                           ELSE "images",
                                 page_texts |-> story_json.storyContent,
                                 image_tasks |-> t.tasks,
                                 image_calls |-> {},
                                 image_results |-> {},
                                 index_error |-> FALSE] @@ Locals(req)
    /\ UNCHANGED <<index, stories, notStory>>

\* one of the gathered tasks ends: generate_image has called the image
\* capability for page i and returns a URL (ok) or None
ImageTaskEnds ==
    /\ req.stage = "images"
    /\ \E i \in req.image_tasks \ req.image_calls, ok \in BOOLEAN :
          req' = [req EXCEPT !.image_calls = @ \cup {i},
                             !.image_results = IF ok THEN @ \cup {i} ELSE @]
    /\ UNCHANGED <<index, stories, notStory>>

\* a gather that returns as soon as one task has ended
gather_returns_first(image_tasks, ended) == ended # {}

\* asyncio.gather(*image_coroutines, return_exceptions=True) returns when
\* every task has ended
gather_returns(image_tasks, ended) == ended = image_tasks

\* the await of the gathered tasks returns; image_results holds the URLs
GatherImages ==
    /\ req.stage = "images"
    /\ gather_returns(req.image_tasks, req.image_calls)
    /\ req' = [req EXCEPT !.stage = "build"]
    /\ UNCHANGED <<index, stories, notStory>>

\* the pages are built (each image stored in S3, or left at the capability's
\* URL when that fails) and the Story is inserted
PersistStory ==
    /\ req.stage = "build"
    /\ \E uploaded \in SUBSET req.image_results :
          LET c == StoryContents(req.page_texts, req.image_tasks,
                                 req.image_results, uploaded)
          IN  IF c.raises
              THEN req' = Failed(req, "page", "build") /\ UNCHANGED stories
              ELSE /\ stories' = Append(stories,
                          [created_by |-> req.user_id,
                           story_content |-> c.story_contents,
                           max_pages |-> req.max_pages])
                   /\ req' = [req EXCEPT !.stage = "reindex"]
                                 @@ [story_id |-> Len(stories) + 1]
    /\ UNCHANGED <<index, notStory>>

\* add_story_to_index writes the story's chunk, tagged with the metadata
\* create_story passes
ReindexStory ==
    /\ req.stage = "reindex"
    /\ index' = index \cup {[user_id |-> req.user_id,
                             child_age |-> req.child_age, type |-> "story"]}
    /\ req' = [req EXCEPT !.stage = "done"]
    /\ UNCHANGED <<stories, notStory>>

\* an index write whose error reaches create_story's outer except clause
reindex_error_propagates(raised) == [raises |-> raised]

\* the try/except around add_story_to_index: the error is logged as a
\* warning and create_story goes on to return the story
reindex_error_handling(raised) == [raises |-> FALSE]

\* add_story_to_index raises
ReindexStoryFails ==
    /\ req.stage = "reindex"
    /\ IF reindex_error_handling(TRUE).raises
       THEN req' = Failed(req, "index", "reindex")
       ELSE req' = [req EXCEPT !.stage = "done", !.index_error = TRUE]
    /\ UNCHANGED <<index, stories, notStory>>

\* the libraries a request may find: none, or a book of one user and a
\* story of the other
StoryLibraries ==
    {{}, {[user_id |-> "u1", child_age |-> MinAge, type |-> "book"],
          [user_id |-> "u2", child_age |-> MinAge, type |-> "story"]}}

InitStorySvc ==
    /\ index \in StoryLibraries /\ libCall = NoCall
    /\ InitStories /\ InitAssign /\ InitReq /\ InitAudio
    /\ InitBooks /\ InitConcurrent

NextStory ==
    \/ CreateStory \/ RetrieveContext \/ RetrieveContextFails
    \/ GenerateStoryContent \/ GenerateStoryContentFails \/ ParseStoryContent
    \/ ImageTaskEnds \/ GatherImages \/ PersistStory \/ ReindexStory \/ ReindexStoryFails

SpecStory == InitStorySvc /\ [][NextStory]_vars

(***************************************************************************)
(* Properties of story creation                                            *)
(***************************************************************************)
\* the request has passed the point where the image tasks are gathered
PastFanOut ==
    \/ req.stage \in {"build", "reindex", "done"}
    \/ req.stage = "failed" /\ req.at = "build"

\* the request holds the pages the completion returned
HasPages == req.stage \in {"images", "build", "reindex", "done", "failed"}

\* C2: every Story create_story has persisted has at most max_pages pages.
C2_PagesWithinMax ==
    \A s \in DOMAIN stories :
        Len(stories[s].story_content) <= stories[s].max_pages

C9_IllustrationFailureIsolated ==
    /\ (req.stage = "failed" /\ req.at = "build") =>
           \E p \in DOMAIN req.page_texts :
               req.page_texts[p] \in {"nondict", "nonstr"}
    /\ req.stage \in {"reindex", "done"} =>
           /\ req.story_id \in DOMAIN stories
           /\ LET story == stories[req.story_id]
              IN  /\ Len(story.story_content) = Len(req.page_texts)
                  /\ \A p \in DOMAIN story.story_content :
                         (story.story_content[p].page_image # "null")
                             <=> (p - 1) \in req.image_results
                  /\ req.image_results \subseteq req.image_calls

\* a Story returned although the image of page 0 failed: page 0 has no
\* image, page 2, whose image succeeded, has one
C9_Witness ==
    /\ req.stage = "done"
    /\ req.image_calls = {0, 2}
    /\ req.image_results = {2}
    /\ stories[req.story_id].story_content[1].page_image = "null"
    /\ stories[req.story_id].story_content[3].page_image # "null"

\* the text json.loads is given is not the required structure
Unparseable(response) ==
    \/ response.wrap \in {"tagged_fence", "prose"}
    \/ response.payload.kind # "story"

\* C10: a completion that is not parseable as the required structure makes
\* create_story fail with the parse error, in a step that writes no Story
\* and no chunk; a failed request has written neither, so the raw text is
\* never stored as a story.
C10_UnparseableFails ==
    /\ [][(req.stage = "parse" /\ Unparseable(req.response)) =>
             /\ req'.stage = "failed" /\ req'.at = "parse"
             /\ req'.error \in {"parse", "type"}
             /\ stories' = stories /\ index' = index]_vars
    /\ [](req.stage = "failed" =>
             stories = <<>> /\ index \in StoryLibraries)

\* create_story has failed on a completion that is an object without a
\* storyContent list
C10_Witness ==
    /\ req.stage = "failed"
    /\ req.error = "parse"
    /\ req.response = [wrap |-> "none",
                       payload |-> [kind |-> "no_story_content"]]
    /\ stories = <<>>
\* the replies a caller gets when the completion answered with unusable text
UnusableOutputReplies ==
    {general_exception_handler(CreateStoryError(e)) : e \in {"parse", "type"}}

\* C11: the error a caller of story creation receives when the completion
\* capability is unavailable is never an error value a caller receives when
\* the capability answered with unusable output.
C11_ErrorsDistinguishable ==
    (req.stage = "failed" /\ req.error = "api") =>
        req.reply \notin UnusableOutputReplies
\* C12: when the index query or the embedding call fails during the
\* retrieval, the stage yields an empty context and the request goes on to
\* the generation stage; no request fails because of the retrieval.
C12_RetrievalFailureDegrades ==
    /\ req.stage = "failed" => req.error \in {"api", "parse", "type", "page"}
    /\ (req.stage = "generate" /\ req.retrieval_error) =>
           req.library_docs = <<>>

\* a request whose retrieval failed is at the generation stage with an
\* empty context, although the index holds a chunk of its owner
C12_Witness ==
    /\ req.stage = "generate"
    /\ req.retrieval_error
    /\ req.library_docs = <<>>
    /\ \E c \in index : c.user_id = req.user_id
\* C13: when the index write of the new story fails, create_story still
\* returns the Story and the Story stays in the store: a request never
\* fails at the index write, and a returned request whose index write
\* failed has its Story, with its owner, in the store.
C13_ReindexFailureSwallowed ==
    /\ req.stage = "failed" => req.at # "reindex"
    /\ (req.stage = "done" /\ req.index_error) =>
           /\ req.story_id \in DOMAIN stories
           /\ stories[req.story_id].created_by = req.user_id
           /\ Len(stories[req.story_id].story_content) = Len(req.page_texts)

\* a request has returned its Story although the index write failed: the
\* Story is stored and the index holds no chunk of its owner
C13_Witness ==
    /\ req.stage = "done"
    /\ req.index_error
    /\ Len(stories) = 1
    /\ \A c \in index : c.user_id # req.user_id
\* C14: when the transcription fails, process_audio aborts with an error
\* in a step that leaves the stored transcript and score as they were; the
\* enhancement and the scoring only ever run on a transcript text.
C14_TranscriptionFailureAborts ==
    /\ [][(run.stage = "transcribe" /\ run'.stage # "transcribe"
             /\ ~(run'.stage = "enhance" /\ run'.transcript \in RawTranscripts))
            => (run'.stage = "failed" /\ audio' = audio)]_vars
    /\ [](run.stage \in {"enhance", "score", "done"} =>
             run.transcript \in RawTranscripts)
\* the enhancement of the running process_audio call has failed
EnhancementFailed == run.stage = "score" /\ ~run.enhanced

\* the word error rate cannot be computed: the reference text has no word,
\* or the transcription returned no text
WerRaises ==
    Len(Split(audio.whole_story)) = 0 \/ run.transcript = NoText

FeedbackCall == svcCall.op = "generate_feedback_for_assignment"

\* the Feedback records of a (story, owner) pair
FeedbacksOf(fs, story_id, user_id) ==
    {f \in DOMAIN fs : fs[f].sid = story_id /\ fs[f].uid = user_id}

\* C16: submitting answers for a (story, owner) pair without an Assignment
\* fails with NotFound, without a call of the grading capability and
\* without a new Feedback.
C16_SubmitWithoutAssignment ==
    (FeedbackCall /\ AssignmentFindOne(svcCall.story_id, svcCall.user_id) = 0)
        => /\ svcCall.outcome = "NotFound"
           /\ svcCall.grade_calls = 0
           /\ ~svcCall.wrote

\* answers were submitted for a stored story that has an Assignment of the
\* other user only: NotFound, nothing graded, nothing written
C16_Witness ==
    /\ FeedbackCall
    /\ StoryGet(svcCall.story_id).found
    /\ AssignmentFindOne(svcCall.story_id, svcCall.user_id) = 0
    /\ \E u \in Users : AssignmentFindOne(svcCall.story_id, u) # 0
    /\ svcCall.outcome = "NotFound"
    /\ svcCall.grade_calls = 0
    /\ feedbacks = <<>>

C18_ExactlyFiveQuestions ==
    \A a \in DOMAIN assignments :
        assignments[a].questions = ExpectedQuestions
(***************************************************************************)
(* Diagnostics of the reading assessment (app/services/audio_service.py    *)
(* analyze_punctuation and highlight_differences).  SpecDiag applies each  *)
(* function once to every pair of short texts.                             *)
(***************************************************************************)
\* A text given to analyze_punctuation, as the tokens word_tokenize finds
\* in it: a word, a comma, a full stop, an ellipsis (word_tokenize keeps
\* "..." as one token).
PunctTokens == {"w", ",", ".", "..."}
PunctTexts == UNION {[1..n -> PunctTokens] : n \in 0..MaxTokens}

\* sent_tokenize: a sentence ends with its full stop; what follows the last
\* full stop is a sentence too
RECURSIVE sent_tokenize_from(_, _, _)
sent_tokenize_from(text, p, sentence) ==
    IF p > Len(text)
    THEN (IF sentence = <<>> THEN <<>> ELSE <<sentence>>)
    ELSE IF text[p] = "."
    THEN <<Append(sentence, text[p])>> \o sent_tokenize_from(text, p + 1, <<>>)
    ELSE sent_tokenize_from(text, p + 1, Append(sentence, text[p]))

sent_tokenize(text) == sent_tokenize_from(text, 1, <<>>)

\* w in string.punctuation: the token is a substring of the string of the
\* ASCII punctuation characters, which holds "," and "." but not "..."
in_string_punctuation(w) == w \in {",", "."}

\* [w for w in words if w in string.punctuation]
punctuation_of(words) == SelectSeq(words, in_string_punctuation)

\* the loop over the first min_len sentence pairs, from index i (0-based)
RECURSIVE punctuation_differences(_, _, _)
punctuation_differences(transcript_sentences, story_sentences, i) ==
    IF i >= Min(Len(transcript_sentences), Len(story_sentences)) THEN <<>>
    ELSE LET transcript_punctuation ==
                 punctuation_of(transcript_sentences[i + 1])
             story_punctuation == punctuation_of(story_sentences[i + 1])
             rest == punctuation_differences(transcript_sentences,
                                             story_sentences, i + 1)
         IN  IF transcript_punctuation # story_punctuation
             THEN <<[sentence_index |-> i,
                     transcript_punctuation |-> transcript_punctuation,
                     story_punctuation |-> story_punctuation]>> \o rest
             ELSE rest

\* AudioService.analyze_punctuation for two texts
analyze_punctuation(transcript, story) ==
    punctuation_differences(sent_tokenize(transcript), sent_tokenize(story), 0)

\* analyze_punctuation is called with two texts
AnalyzePunctuation ==
    /\ diag = NoDiag
    /\ \E transcript \in PunctTexts, story \in PunctTexts :
          diag' = [op |-> "analyze_punctuation", raised |-> FALSE,
                   transcript |-> transcript, story |-> story,
                   result |-> analyze_punctuation(transcript, story)]
    /\ UNCHANGED notDiag

\* analyze_punctuation is called with a transcript that is None (or the
\* tokenizer raises otherwise): the except clause returns []
AnalyzePunctuationRaises ==
    /\ diag = NoDiag
    /\ \E story \in PunctTexts :
          diag' = [op |-> "analyze_punctuation", raised |-> TRUE,
                   transcript |-> NoText, story |-> story,
                   result |-> <<>>]
    /\ UNCHANGED notDiag
\* The words of the texts given to highlight_differences.  "world" and
\* "worlds" are close enough for difflib to treat one as an edit of the
\* other (similarity ratio 10/11, above its cutoff of 0.75); "Hello" is
\* close to neither.
DiffWords == {"Hello", "world", "worlds"}
DiffTexts == {Join(ws) : ws \in UNION {[1..n -> DiffWords] : n \in 0..MaxTokens}}

Similar(x, y) == {x, y} = {"world", "worlds"}

\* n lines of ndiff with the same two-character prefix
Lines(tag, words) == [p \in DOMAIN words |-> [tag |-> tag, word |-> words[p]]]

\* SequenceMatcher.find_longest_match: the longest common block, of those
\* the one earliest in a, of those the one earliest in b; <<i, j, k>>
find_longest_match(a, b) ==
    LET blocks == {m \in (1..Len(a)) \X (1..Len(b)) \X (1..Min(Len(a), Len(b))) :
                      /\ m[1] + m[3] - 1 <= Len(a)
                      /\ m[2] + m[3] - 1 <= Len(b)
                      /\ \A d \in 0..(m[3] - 1) : a[m[1] + d] = b[m[2] + d]}
    IN  IF blocks = {} THEN <<1, 1, 0>>
        ELSE CHOOSE m \in blocks : \A n \in blocks :
                 \/ m[3] > n[3]
                 \/ m[3] = n[3] /\ m[1] < n[1]
                 \/ m[3] = n[3] /\ m[1] = n[1] /\ m[2] <= n[2]

\* Differ._plain_replace: the shorter side first
plain_replace(a, b) ==
    IF Len(b) < Len(a) THEN Lines("+ ", b) \o Lines("- ", a)
    ELSE Lines("- ", a) \o Lines("+ ", b)

\* Differ._qformat for a pair of similar words: the two words, and a "? "
\* guide line under the one that has the character the other lacks
qformat(aelt, belt) ==
    IF aelt = "worlds"
    THEN <<[tag |-> "- ", word |-> aelt], [tag |-> "? ", word |-> "-"],
           [tag |-> "+ ", word |-> belt]>>
    ELSE <<[tag |-> "- ", word |-> aelt], [tag |-> "+ ", word |-> belt],
           [tag |-> "? ", word |-> "+"]>>

\* Differ._fancy_replace and _fancy_helper on a block without a common
\* word: the first pair of similar words (b outer, a inner) synchronises
\* the block; without such a pair the block is replaced plainly
RECURSIVE fancy_helper(_, _)
fancy_helper(a, b) ==
    IF a = <<>> THEN Lines("+ ", b)
    ELSE IF b = <<>> THEN Lines("- ", a)
    ELSE LET pairs == {q \in (1..Len(b)) \X (1..Len(a)) : Similar(a[q[2]], b[q[1]])}
         IN  IF pairs = {} THEN plain_replace(a, b)
             ELSE LET best == CHOOSE q \in pairs : \A r \in pairs :
                                  q[1] < r[1] \/ (q[1] = r[1] /\ q[2] <= r[2])
                      best_i == best[2]
                      best_j == best[1]
                  IN  fancy_helper(SubSeq(a, 1, best_i - 1),
                                   SubSeq(b, 1, best_j - 1))
                      \o qformat(a[best_i], b[best_j])
                      \o fancy_helper(SubSeq(a, best_i + 1, Len(a)),
                                      SubSeq(b, best_j + 1, Len(b)))

\* difflib.ndiff(a, b): the common blocks of SequenceMatcher as "  " lines,
\* what lies between them as "- ", "+ " and "? " lines
RECURSIVE ndiff(_, _)
ndiff(a, b) ==
    LET m == find_longest_match(a, b)
    IN  IF m[3] = 0 THEN fancy_helper(a, b)
        ELSE ndiff(SubSeq(a, 1, m[1] - 1), SubSeq(b, 1, m[2] - 1))
             \o Lines("  ", SubSeq(a, m[1], m[1] + m[3] - 1))
             \o ndiff(SubSeq(a, m[1] + m[3], Len(a)),
                      SubSeq(b, m[2] + m[3], Len(b)))

\* the loop over the lines of the diff: a "- " line is marked missing, a
\* "+ " line extra, every other line is taken as it is, without its first
\* two characters
Highlight(line) ==
    [mark |-> IF line.tag = "- " THEN "missing"
              ELSE IF line.tag = "+ " THEN "extra" ELSE "unchanged",
     text |-> line.word]

\* AudioService.highlight_differences for two texts: the entries that are
\* joined by " " into the returned markup
highlight_differences(original_text, your_reading) ==
    LET diff == ndiff(Split(original_text), Split(your_reading))
    IN  [p \in DOMAIN diff |-> Highlight(diff[p])]

\* highlight_differences is called with two texts
HighlightDifferences ==
    /\ diag = NoDiag
    /\ \E original_text \in DiffTexts, your_reading \in DiffTexts :
          diag' = [op |-> "highlight_differences", raised |-> FALSE,
                   original_text |-> original_text,
                   your_reading |-> your_reading,
                   result |-> highlight_differences(original_text,
                                                    your_reading)]
    /\ UNCHANGED notDiag

\* highlight_differences is called with a reading that is None: split
\* raises and the except clause returns ""
HighlightDifferencesRaises ==
    /\ diag = NoDiag
    /\ \E original_text \in DiffTexts :
          diag' = [op |-> "highlight_differences", raised |-> TRUE,
                   original_text |-> original_text, your_reading |-> NoText,
                   result |-> <<>>]
    /\ UNCHANGED notDiag

InitDiag == InitIndex /\ InitStories /\ InitAssign /\ InitReq /\ InitAudio
    /\ InitBooks /\ InitConcurrent

NextDiag ==
    \/ AnalyzePunctuation \/ AnalyzePunctuationRaises
    \/ HighlightDifferences \/ HighlightDifferencesRaises

SpecDiag == InitDiag /\ [][NextDiag]_vars

\* the tokens that consist of punctuation characters only
PunctuationOnly(words) == SelectSeq(words, LAMBDA w : w # "w")

\* C19: analyze_punctuation aligns the sentences by position: below the
\* shorter sentence count there is an entry for index i exactly when the
\* punctuation-only tokens of the two sentences i differ, it carries both
\* token sequences, no entry has another index, and the entries are in
\* increasing order of index.
C19_PunctuationAlignment ==
    (diag.op = "analyze_punctuation" /\ ~diag.raised) =>
        LET ts == sent_tokenize(diag.transcript)
            ss == sent_tokenize(diag.story)
            n == Min(Len(ts), Len(ss))
            r == diag.result
        IN  /\ \A i \in 0..(n - 1) :
                   (\E e \in DOMAIN r : r[e].sentence_index = i)
                       <=> PunctuationOnly(ts[i + 1]) # PunctuationOnly(ss[i + 1])
            /\ \A e \in DOMAIN r :
                   /\ r[e].sentence_index \in 0..(n - 1)
                   /\ r[e].transcript_punctuation
                          = PunctuationOnly(ts[r[e].sentence_index + 1])
                   /\ r[e].story_punctuation
                          = PunctuationOnly(ss[r[e].sentence_index + 1])
            /\ \A e, f \in DOMAIN r :
                   e < f => r[e].sentence_index < r[f].sentence_index

\* the texts of the entries with another mark than the one dropped
TextsWithout(r, mark) ==
    LET kept == SelectSeq(r, LAMBDA e : e.mark # mark)
    IN  [p \in DOMAIN kept |-> kept[p].text]

\* C20: highlight_differences yields entries marked missing, extra or
\* unchanged; without the extra entries they are the words of the
\* reference, without the missing entries the words of the transcript, and
\* every entry is a word of one of the two.
C20_HighlightAlignment ==
    (diag.op = "highlight_differences" /\ ~diag.raised) =>
        LET r == diag.result
            reference == Split(diag.original_text)
            reading == Split(diag.your_reading)
        IN  /\ TextsWithout(r, "extra") = reference
            /\ TextsWithout(r, "missing") = reading
            /\ \A e \in DOMAIN r :
                   \/ \E p \in DOMAIN reference : reference[p] = r[e].text
                   \/ \E p \in DOMAIN reading : reading[p] = r[e].text
\* C21: every Story create_story has persisted has at least one page and
\* every page of it has a non-empty text (a completion with an empty page
\* list, or with a page without text, is rejected).
C21_PagesNonEmpty ==
    \A s \in DOMAIN stories :
        /\ Len(stories[s].story_content) >= 1
        /\ \A p \in DOMAIN stories[s].story_content :
               stories[s].story_content[p].page_text # ""
\* C22: within one create_story request the stages follow one another in
\* the fixed order: the completion is called only after the retrieval has
\* ended, the Story is inserted only after every launched image task has
\* ended, and the story's chunk is written to the index only after the
\* Story has been inserted.
C22_StageOrder ==
    [][/\ req'.stage = "generate" => req.stage = "retrieve_context"
       /\ req'.stage = "parse" => req.stage = "generate"
       /\ req'.stage = "images" => req.stage \in {"parse", "images"}
       /\ req'.stage = "build" => req.stage \in {"parse", "images"}
       /\ stories' # stories =>
              /\ req.stage = "build" /\ req'.stage = "reindex"
              /\ req.image_calls = req.image_tasks
       /\ req'.stage = "reindex" => stories' # stories
       /\ index' # index =>
              /\ req.stage = "reindex" /\ req'.stage = "done"
              /\ req.story_id \in DOMAIN stories
       /\ req'.stage = "done" => req.stage = "reindex"]_vars

\* a request with two image tasks, one failed, has gone through every
\* stage: its Story is stored and its chunk is in the index
C22_Witness ==
    /\ req.stage = "done"
    /\ req.image_tasks = {0, 2}
    /\ req.image_calls = {0, 2}
    /\ req.image_results = {0}
    /\ ~req.index_error
    /\ req.story_id \in DOMAIN stories
    /\ \E c \in index : c.user_id = req.user_id /\ c.type = "story"
                          /\ c.child_age = req.child_age
\* the run in flight is past a transcription that returned a text
HoldsTranscript ==
    /\ \/ run.stage \in {"enhance", "score", "done"}
       \/ run.stage = "failed" /\ run.at \in {"score", "save_score"}
    /\ run.transcript \in RawTranscripts

\* C23: the raw transcript is stored once the transcription has succeeded,
\* before the enhancement is called, and stays the stored transcript when
\* a later stage of the run (enhancement, scoring, score write) fails.
C23_TranscriptWrittenFirst ==
    /\ [](HoldsTranscript => audio.transcript = Value(run.transcript))
    /\ [][run'.stage = "enhance" =>
             /\ run.stage = "transcribe"
             /\ run'.transcript \in RawTranscripts =>
                    audio'.transcript = Value(run'.transcript)]_vars
    /\ [][(HoldsTranscript /\ run'.stage = "failed") =>
             audio'.transcript = Value(run.transcript)]_vars

\* a run whose score write failed: the stored transcript is the raw
\* transcript of the run, a non-empty text
C23_Witness ==
    /\ run.stage = "failed"
    /\ run.at = "save_score"
    /\ Len(run.transcript) = 1
    /\ run.transcript \in RawTranscripts
    /\ audio.transcript = Value(run.transcript)
\* the chunks of a ranking that the retrieval is to keep: the owner's, of
\* the queried age, a book with include_books or a story with
\* include_stories
Eligible(results, call) ==
    SelectSeq(results, LAMBDA c :
        /\ c.user_id = call.user_id
        /\ c.child_age = call.child_age
        /\ \/ c.type = "book" /\ call.include_books
           \/ c.type = "story" /\ call.include_stories)

MaxBooks == 2

notBook == <<libCall, stories, assignments, feedbacks, svcCall, req, audio, run, diag, calls, runs>>

\* a Book document that holds the flag it is not given at construction
new_book_indexed(user_id, child_age) ==
    [uploaded_by |-> user_id, child_age |-> child_age, is_indexed |-> TRUE]

\* Book(..., uploaded_by=ObjectId(user_id), child_age=child_age,
\* is_indexed=False)
new_book(user_id, child_age) ==
    [uploaded_by |-> user_id, child_age |-> child_age, is_indexed |-> FALSE]

\* chunks of a book written without the uploader's id
book_chunk_untagged(user_id, child_age) ==
    [user_id |-> NoOwner, child_age |-> child_age, type |-> "book"]

\* the metadata add_book_to_index gives every chunk of a book
book_chunk(user_id, child_age) ==
    [user_id |-> user_id, child_age |-> child_age, type |-> "book"]

\* upload_book up to book.insert(): the file passed validation, reached S3
\* and gave text; the Book document is inserted.  The route passes the
\* id and the child_age of the authenticated user, an age of the given set
UploadBookOf(AgeSet) ==
    /\ upload.stage \in {"idle", "done", "failed"}
    /\ Len(books) < MaxBooks
    /\ \E user_id \in Users, child_age \in AgeSet :
          /\ books' = Append(books, new_book(user_id, child_age))
          /\ upload' = [stage |-> "index", user_id |-> user_id,
                        child_age |-> child_age, book_id |-> Len(books) + 1,
                        is_indexed |-> FALSE, index_error |-> FALSE]
    /\ UNCHANGED <<index, notBook>>

\* POST /api/books/upload
UploadBook == UploadBookOf(Ages)

\* upload_book fails before the insert: a file of a wrong kind, an S3 error,
\* a file without extractable text
UploadBookFails ==
    /\ upload.stage \in {"idle", "done", "failed"}
    /\ \E user_id \in Users, child_age \in Ages :
          upload' = [stage |-> "failed", user_id |-> user_id,
                     child_age |-> child_age]
    /\ UNCHANGED <<index, books, notBook>>

\* add_book_to_index returns: every chunk of the book is in the index
IndexBook ==
    /\ upload.stage = "index"
    /\ index' = index \cup {book_chunk(upload.user_id, upload.child_age)}
    /\ upload' = [upload EXCEPT !.stage = "save_indexed"]
    /\ UNCHANGED <<books, notBook>>

\* add_book_to_index raises: upload_book logs the error and goes on to its
\* return with the flag it constructed
IndexBookFails ==
    /\ upload.stage = "index"
    /\ upload' = [upload EXCEPT !.stage = "done", !.index_error = TRUE]
    /\ UNCHANGED <<index, books, notBook>>

\* book.is_indexed = True; await book.save()
SaveIndexed ==
    /\ upload.stage = "save_indexed"
    /\ books' = [books EXCEPT ![upload.book_id].is_indexed = TRUE]
    /\ upload' = [upload EXCEPT !.stage = "done", !.is_indexed = TRUE]
    /\ UNCHANGED <<index, notBook>>

\* book.save() raises inside the same try: the except clause logs it, the
\* stored flag stays as inserted, the document in memory holds True
SaveIndexedFails ==
    /\ upload.stage = "save_indexed"
    /\ upload' = [upload EXCEPT !.stage = "done", !.is_indexed = TRUE,
                                !.index_error = TRUE]
    /\ UNCHANGED <<index, books, notBook>>

InitBookSvc ==
    /\ InitIndex /\ libCall = NoCall
    /\ InitStories /\ InitAssign /\ InitReq /\ InitAudio
    /\ InitBooks /\ InitConcurrent

NextBook ==
    \/ UploadBook
    \/ UploadBookFails
    \/ IndexBook
    \/ IndexBookFails
    \/ SaveIndexed
    \/ SaveIndexedFails

SpecBook == InitBookSvc /\ [][NextBook]_vars

\* C26: a Book document is inserted with the indexed flag false; a stored
\* flag is true only when the chunks of that book are in the index; and an
\* upload whose indexing failed still returns, with its Book document stored
\* and that document's flag false.
C26_IndexedFlag ==
    /\ [](\A b \in 1..Len(books) :
            books[b].is_indexed =>
                book_chunk(books[b].uploaded_by, books[b].child_age) \in index)
    /\ [][Len(books') > Len(books) => ~books'[Len(books')].is_indexed]_vars
    /\ [](upload.stage = "save_indexed" =>
            book_chunk(upload.user_id, upload.child_age) \in index)
    /\ [][\A b \in 1..Len(books) :
            books'[b].is_indexed /\ ~books[b].is_indexed =>
                upload.stage = "save_indexed" /\ upload.book_id = b]_vars
    /\ [][upload.stage \in {"index", "save_indexed"} /\ upload'.index_error
            => /\ upload'.stage = "done"
               /\ upload'.book_id \in 1..Len(books')
               /\ ~books'[upload'.book_id].is_indexed]_vars

\* an upload whose indexing failed has returned, and another whose indexing
\* succeeded has its flag stored
C26_Witness ==
    /\ upload.stage = "done" /\ upload.index_error
    /\ ~books[upload.book_id].is_indexed
    /\ \E b \in 1..Len(books) : books[b].is_indexed

\* ---------------------------------------------------------------------------
\* Concurrent create_assignment calls: services/story_service.py
\* create_assignment is a coroutine; every await (find_one, Story.get,
\* generate_questions, insert) is a point where another call may run
\* ---------------------------------------------------------------------------

\* number of create_assignment calls in flight at once
MaxCallers == 2
Callers == 1..MaxCallers

notRace == <<index, libCall, stories, feedbacks, svcCall, req, audio, run, diag, books, upload, runs>>

IdleCall == [stage |-> "idle"]

\* the route calls create_assignment(story_id, user_id)
CallCreateAssignment(c) ==
    /\ calls[c].stage = "idle"
    /\ \E story_id \in StoryIds, user_id \in Users :
          calls' = [calls EXCEPT ![c] =
                      [stage |-> "find_one", story_id |-> story_id,
                       user_id |-> user_id, question_calls |-> 0]]
    /\ UNCHANGED <<assignments, notRace>>

\* existing = await Assignment.find_one(...); if existing: return existing
FindExisting(c) ==
    /\ calls[c].stage = "find_one"
    /\ LET existing == AssignmentFindOne(calls[c].story_id, calls[c].user_id)
       IN  calls' = [calls EXCEPT ![c] =
                IF existing # 0
                THEN [@ EXCEPT !.stage = "done"] @@ [id |-> existing]
                ELSE [@ EXCEPT !.stage = "get_story"]]
    /\ UNCHANGED <<assignments, notRace>>

\* story = await Story.get(story_id); if not story: raise NotFoundError
GetStoryForAssignment(c) ==
    /\ calls[c].stage = "get_story"
    /\ calls' = [calls EXCEPT ![c].stage =
                    IF StoryGet(calls[c].story_id).found
                    THEN "generate_questions" ELSE "failed"]
    /\ UNCHANGED <<assignments, notRace>>

\* questions_data = await generate_questions(...)
GenerateQuestions(c) ==
    /\ calls[c].stage = "generate_questions"
    /\ \E qresp \in QuestionResponses :
          calls' = [calls EXCEPT ![c] =
                IF qresp = "raises"
                THEN [@ EXCEPT !.stage = "failed", !.question_calls = 1]
                ELSE [@ EXCEPT !.stage = "insert", !.question_calls = 1]
                        @@ [qresp |-> qresp]]
    /\ UNCHANGED <<assignments, notRace>>

\* assignment = Assignment(sid, uid, questions); await assignment.insert()
InsertAssignment(c) ==
    /\ calls[c].stage = "insert"
    /\ IF calls[c].qresp = "malformed"
       THEN /\ calls' = [calls EXCEPT ![c].stage = "failed"]
            /\ UNCHANGED assignments
       ELSE /\ assignments' = Append(assignments,
                  [sid |-> calls[c].story_id, uid |-> calls[c].user_id,
                   questions |-> QuestionCount(calls[c].qresp)])
            /\ calls' = [calls EXCEPT ![c] =
                  [@ EXCEPT !.stage = "done"] @@ [id |-> Len(assignments) + 1]]
    /\ UNCHANGED notRace

InitRace ==
    /\ stories = <<StoryDoc("u1")>>
    /\ calls = [c \in Callers |-> IdleCall] /\ runs = <<>>
    /\ InitIndex /\ InitAssign /\ InitReq /\ InitAudio /\ InitBooks

NextRace ==
    \/ \E c \in Callers : CallCreateAssignment(c)
    \/ \E c \in Callers : FindExisting(c)
    \/ \E c \in Callers : GetStoryForAssignment(c)
    \/ \E c \in Callers : GenerateQuestions(c)
    \/ \E c \in Callers : InsertAssignment(c)

SpecRace == InitRace /\ [][NextRace]_vars

\* the calls made for the pair (story_id, user_id)
CallsFor(story_id, user_id) ==
    {c \in Callers : /\ calls[c].stage # "idle"
                     /\ calls[c].story_id = story_id
                     /\ calls[c].user_id = user_id}

\* C27: under every interleaving of concurrent create_assignment calls for
\* one (story, user) pair, the collection holds at most one Assignment of the
\* pair and question generation has run at most once for the pair.
C27_OneAssignmentPerPair ==
    \A story_id \in StoryIds, user_id \in Users :
        /\ Cardinality({i \in DOMAIN assignments :
                /\ assignments[i].sid = story_id
                /\ assignments[i].uid = user_id}) <= 1
        /\ Cardinality({c \in CallsFor(story_id, user_id) :
                calls[c].question_calls = 1}) <= 1

\* C28: in every reachable state of an Audio document, after any sequence of
\* uploads and process_audio runs, a stored score that is not null comes
\* with a stored transcript that is not null.
C28_ScoreImpliesTranscript ==
    audio.exists /\ ~audio.score.null => ~audio.transcript.null

\* ---------------------------------------------------------------------------
\* Concurrent process_audio runs on one Audio document: each run works on the
\* document object its Audio.get returned, and each audio.save() writes that
\* object's fields to the store
\* ---------------------------------------------------------------------------

\* the process_audio runs in flight on the one Audio document
Runners == {"r1", "r2"}

notRuns == <<index, libCall, stories, assignments, feedbacks, svcCall, req, run, diag, books, upload, calls>>

IdleRun == [stage |-> "idle"]

\* a value a run stored, with the run that produced it
ValueOf(v, r) == [null |-> FALSE, v |-> v, by |-> r]

\* a save that writes only the field the run assigned
save_changes(stored, doc, field) == [stored EXCEPT ![field] = doc[field]]

\* Document.save(): every field of the run's document object is written
save(stored, doc, field) == doc

\* audio = await Audio.get(audio_id): the run's own copy of the document
LoadAudio(r) ==
    /\ runs[r].stage = "idle"
    /\ audio.exists /\ audio.whole_story # <<>>
    /\ runs' = [runs EXCEPT ![r] = [stage |-> "transcribe", loaded |-> audio, doc |-> audio]]
    /\ UNCHANGED <<audio, notRuns>>

\* transcribe_audio returns; audio.transcript = transcript; await audio.save()
WriteTranscript(r) ==
    /\ runs[r].stage = "transcribe"
    /\ \E transcript \in RawTranscripts :
          LET doc == [runs[r].doc EXCEPT !.transcript = ValueOf(transcript, r)]
          IN  /\ audio' = save(audio, doc, "transcript")
              /\ runs' = [runs EXCEPT ![r] =
                            [stage |-> "enhance", loaded |-> runs[r].loaded,
                             doc |-> doc, transcript |-> transcript]]
    /\ UNCHANGED notRuns

\* enhance_transcript returns, wer is computed; audio.score = score;
\* await audio.save()
WriteScore(r) ==
    /\ runs[r].stage = "enhance"
    /\ \E enhanced_transcript \in RawTranscripts :
          LET error_rate == wer(runs[r].doc.whole_story,
                                ScoredTranscript(runs[r].transcript,
                                                 enhanced_transcript))
          IN  /\ ~error_rate.raises
              /\ LET doc == [runs[r].doc EXCEPT
                                !.score = ValueOf(Score(error_rate), r)]
                 IN  /\ audio' = save(audio, doc, "score")
                     /\ runs' = [runs EXCEPT ![r] =
                                   [stage |-> "done",
                                    loaded |-> runs[r].loaded, doc |-> doc,
                                    transcript |-> runs[r].transcript]]
    /\ UNCHANGED notRuns

\* a run ends in an error: transcribe_audio raises, wer raises, or a save
\* raises; what the run wrote before stays
RunFails(r) ==
    /\ runs[r].stage \in {"transcribe", "enhance"}
    /\ runs' = [runs EXCEPT ![r] = [stage |-> "failed", loaded |-> runs[r].loaded, doc |-> runs[r].doc]]
    /\ UNCHANGED <<audio, notRuns>>

InitRuns ==
    /\ \E whole_story \in {Join(ws) : ws \in WordSeqs(1)} :
          audio = [exists |-> TRUE, whole_story |-> whole_story,
                   transcript |-> NoValue, score |-> NoValue]
    /\ run = NoRun /\ diag = NoDiag
    /\ runs = [r \in Runners |-> IdleRun] /\ calls = <<>>
    /\ InitIndex /\ InitStories /\ InitAssign /\ InitReq /\ InitBooks

NextRuns ==
    \/ \E r \in Runners : LoadAudio(r)
    \/ \E r \in Runners : WriteTranscript(r)
    \/ \E r \in Runners : WriteScore(r)
    \/ \E r \in Runners : RunFails(r)

SpecRuns == InitRuns /\ [][NextRuns]_vars

\* C29: with concurrent process_audio runs on one Audio document, each
\* writing its whole document object at its transcript write and at its
\* score write: a score write leaves the record with the transcript and the
\* score of the run that wrote, and once every run has ended successfully
\* the stored transcript and the stored score come from one run.
C29_TranscriptAndScoreOfOneRun ==
    /\ [][\A r \in Runners :
            runs[r].stage = "enhance" /\ runs'[r].stage = "done" =>
                /\ ~audio'.transcript.null /\ audio'.transcript.by = r
                /\ audio'.transcript.v = runs[r].transcript
                /\ ~audio'.score.null /\ audio'.score.by = r]_vars
    /\ []((\A r \in Runners : runs[r].stage = "done") =>
            /\ ~audio.transcript.null /\ ~audio.score.null
            /\ audio.transcript.by = audio.score.by)

\* every run has ended successfully, and every run had loaded the document
\* before any of them wrote to it
C29_Witness ==
    /\ \A r \in Runners : runs[r].stage = "done"
    /\ \A r \in Runners : runs[r].loaded.transcript.null
    /\ audio.transcript.by = audio.score.by

\* ---------------------------------------------------------------------------
\* The shared index: book uploads and story creations of several users, one
\* after another and interleaved, all writing to and reading from one index
\* ---------------------------------------------------------------------------

\* largest number of Story documents the store holds in this part
MaxStories == 2

\* the completions of this part: a one-page story, and text that is no JSON
ShortResponses ==
    {[wrap |-> "none", payload |-> [kind |-> "story", storyContent |-> <<"text">>]],
     [wrap |-> "none", payload |-> [kind |-> "not_json"]]}

\* the one child age of this part's users
SharedAges == {MinAge}

\* create_story is entered for a one-page story without illustrations
CreateTextStory ==
    /\ Len(stories) < MaxStories
    /\ CreateStoryOf({1}, {FALSE}, SharedAges)

\* POST /api/books/upload by one of this part's users
UploadSharedBook == UploadBookOf(SharedAges)

\* upload_book has returned or raised; the route sends the reply
UploadReturns ==
    /\ upload.stage \in {"done", "failed"}
    /\ upload' = NoUpload
    /\ UNCHANGED <<index, books, notBook>>

\* llm.ainvoke returns one of the short completions
GenerateShortStory == GenerateStoryContentOf(ShortResponses)

\* create_story has returned or raised; the route sends the reply
StoryReturns ==
    /\ req.stage \in {"done", "failed"}
    /\ req' = NoReq
    /\ UNCHANGED <<index, stories, notStory>>

InitShared ==
    /\ InitIndex /\ InitStories /\ InitAssign /\ InitReq /\ InitAudio
    /\ InitBooks /\ InitConcurrent

NextShared ==
    \/ UploadSharedBook
    \/ UploadReturns
    \/ IndexBook
    \/ IndexBookFails
    \/ SaveIndexed
    \/ SaveIndexedFails
    \/ CreateTextStory
    \/ RetrieveContext
    \/ RetrieveContextFails
    \/ GenerateShortStory
    \/ GenerateStoryContentFails
    \/ ParseStoryContent
    \/ PersistStory
    \/ ReindexStory
    \/ ReindexStoryFails
    \/ StoryReturns

SpecShared == InitShared /\ [][NextShared]_vars

\* C30: every chunk that upload_book or create_story adds to the index
\* carries the user id of the request that adds it, every chunk of the index
\* carries the id of a user, and the context retrieved for a story of user U
\* holds only chunks that carry U's id.
C30_ChunksTaggedWithWriter ==
    /\ [][\A c \in index' \ index :
            \/ /\ upload.stage = "index" /\ upload'.stage = "save_indexed"
               /\ c.user_id = upload.user_id
            \/ /\ req.stage = "reindex" /\ req'.stage = "done"
               /\ c.user_id = req.user_id]_vars
    /\ [](\A c \in index : c.user_id \in Users)
    /\ [](req.stage = "generate" =>
            \A i \in 1..Len(req.library_docs) :
                /\ req.library_docs[i] \in index
                /\ req.library_docs[i].user_id = req.user_id)

\* a story request of one user has retrieved a context while the index also
\* holds a book chunk and a story chunk of the other user
C30_Witness ==
    /\ req.stage = "generate" /\ Len(req.library_docs) > 0
    /\ \E c, d \in index :
          /\ c.user_id # req.user_id /\ c.type = "book"
          /\ d.user_id # req.user_id /\ d.type = "story"

====
